---- MODULE Spec2Model ----
(***************************************************************************)
(* Session-backed power-flow service (backend/app).                        *)
(*                                                                         *)
(* Several worker processes serve HTTP requests; they share nothing but    *)
(* the session directory, one pickle file per session id.  A step of the   *)
(* model is one file-system operation of one worker (exists, open, a       *)
(* flushed write, unlink) or one in-memory computation (the solve).        *)
(*                                                                         *)
(* Conventions.  An Optional value is a sequence of length at most one:    *)
(* None is <<>> and a present value x is <<x>>.  Floating-point quantities *)
(* are modelled at integer values.  Wall-clock durations                   *)
(* (calculation_time_ms) are left out of the records.                      *)
(***************************************************************************)
EXTENDS Integers, Sequences, FiniteSets, TLC

\* ------------------------------------------------------------------ bounds
NWorkers == 2
MaxSessions == 2
MaxRequests == 3
\* rows of the external-grid and generator tables of a network under a run
MaxRows == 2
\* warnings the solver emits during one call
MaxWarnings == 2
\* pieces of a filename given to detect_format
MaxTokens == 3

Workers == 1..NWorkers
Ids == 1..MaxSessions

\* Python's None, and a present Optional value
None == <<>>

Some(x) == <<x>>

\* a missing (NaN) cell of a name column
NaN == "<NaN>"

\* a session id that create_session never generated
NoSuchId == MaxSessions + 1

\* ------------------------------------------------------ result-table data
TableNames == <<"res_bus", "res_line", "res_trafo", "res_trafo3w", "res_load",
                "res_gen", "res_sgen", "res_ext_grid", "res_shunt">>

TableSet == {TableNames[i] : i \in 1..Len(TableNames)}

NullTables == [t \in TableSet |-> None]

\* a table the network object does not have (hasattr is false)
AbsentDf == [present |-> FALSE, columns |-> <<>>, rows |-> <<>>]

SeqMax(s) == CHOOSE m \in {s[i] : i \in 1..Len(s)} : \A j \in 1..Len(s) : s[j] <= m

\* (mutant) the first value stands for the smallest
SeqMinFirst(s) == s[1]

SeqMin(s) == CHOOSE m \in {s[i] : i \in 1..Len(s)} : \A j \in 1..Len(s) : m <= s[j]

\* one column of a data frame, as the sequence of its values
Column(df, col) == [i \in 1..Len(df.rows) |-> df.rows[i].vals[col]]

HasColumn(df, col) == \E i \in 1..Len(df.columns) : df.columns[i] = col

\* df is None or df.empty
DfEmpty(df) == ~df.present \/ df.rows = <<>>

\* round(x, 4) of a value that is already a multiple of 1e-4
Round4(x) == x

\* 'res_bus' -> 'bus'
ElementType(table_name) ==
    CASE table_name = "res_bus" -> "bus"
      [] table_name = "res_line" -> "line"
      [] table_name = "res_trafo" -> "trafo"
      [] table_name = "res_trafo3w" -> "trafo3w"
      [] table_name = "res_load" -> "load"
      [] table_name = "res_gen" -> "gen"
      [] table_name = "res_sgen" -> "sgen"
      [] table_name = "res_ext_grid" -> "ext_grid"
      [] table_name = "res_shunt" -> "shunt"

\* (mutant) the name is taken as it is written
Unstripped(name) == name

\* str.strip() of the names in use
Strip(name) ==
    CASE name = " " -> ""
      [] name = " G0 " -> "G0"
      [] OTHER -> name

\* (mutant) a blank name is shown as it is
DeviceNameKeepsBlank(names, idx) ==
    IF idx \notin DOMAIN names THEN "-"
    ELSE IF names[idx] = NaN THEN "-"
    ELSE Strip(names[idx])

\* str(x).strip() if pd.notna(x) and str(x).strip() else "-", after the
\* reindex that yields NaN for an index the element table does not have
DeviceName(names, idx) ==
    IF idx \notin DOMAIN names THEN "-"
    ELSE IF names[idx] = NaN THEN "-"
    ELSE IF Strip(names[idx]) = "" THEN "-"
    ELSE Strip(names[idx])

\* (mutant) a table that is present and has no rows becomes an object without rows
DataframeToTableDataOfAny(network, df, table_name) ==
    IF ~df.present THEN None
    ELSE LET element_type == ElementType(table_name)
             named == /\ element_type \in DOMAIN network.names
                      /\ network.names[element_type].has_name_column
             cols == <<"idx">> \o (IF named THEN <<"name">> ELSE <<>>) \o df.columns
             colset == {cols[i] : i \in 1..Len(cols)}
             Row(r) == [c \in colset |->
                          IF c = "idx" THEN Some(r.idx)
                          ELSE IF c = "name" /\ named
                               THEN DeviceName(network.names[element_type].name, r.idx)
                               ELSE Some(Round4(r.vals[c]))]
             data == [i \in 1..Len(df.rows) |-> Row(df.rows[i])]
         IN Some([columns |-> cols, data |-> data, row_count |-> Len(data)])

\* _dataframe_to_table_data: None, or the columns, the rows as dictionaries
\* and their number
DataframeToTableData(network, df, table_name) ==
    IF DfEmpty(df) THEN None
    ELSE LET element_type == ElementType(table_name)
             named == /\ element_type \in DOMAIN network.names
                      /\ network.names[element_type].has_name_column
             cols == <<"idx">> \o (IF named THEN <<"name">> ELSE <<>>) \o df.columns
             colset == {cols[i] : i \in 1..Len(cols)}
             Row(r) == [c \in colset |->
                          IF c = "idx" THEN Some(r.idx)
                          ELSE IF c = "name" /\ named
                               THEN DeviceName(network.names[element_type].name, r.idx)
                               ELSE Some(Round4(r.vals[c]))]
             data == [i \in 1..Len(df.rows) |-> Row(df.rows[i])]
         IN Some([columns |-> cols, data |-> data, row_count |-> Len(data)])

\* max(max_loading or 0, trafo_max)
MaxOr0(max_loading, trafo_max) ==
    LET a == IF max_loading = None THEN 0 ELSE max_loading[1]
    IN IF trafo_max > a THEN trafo_max ELSE a

ExtractResults(network) ==
    LET res == network.res
        line_max == IF ~DfEmpty(res["res_line"]) /\ HasColumn(res["res_line"], "loading_percent")
                    THEN Some(SeqMax(Column(res["res_line"], "loading_percent")))
                    ELSE None
        max_loading == IF ~DfEmpty(res["res_trafo"]) /\ HasColumn(res["res_trafo"], "loading_percent")
                       THEN Some(MaxOr0(line_max, SeqMax(Column(res["res_trafo"], "loading_percent"))))
                       ELSE line_max
        has_vm == ~DfEmpty(res["res_bus"]) /\ HasColumn(res["res_bus"], "vm_pu")
    IN [converged |-> TRUE,
        message |-> "",
        iterations |-> None,
        calculation_log |-> None,
        tables |-> [t \in TableSet |-> DataframeToTableData(network, res[t], t)],
        max_loading_percent |-> max_loading,
        min_vm_pu |-> IF has_vm THEN Some(SeqMin(Column(res["res_bus"], "vm_pu"))) ELSE None,
        max_vm_pu |-> IF has_vm THEN Some(SeqMax(Column(res["res_bus"], "vm_pu"))) ELSE None]

\* ------------------------------------------------------------ the solver
RECURSIVE SeqSum(_)
SeqSum(s) == IF s = <<>> THEN 0 ELSE s[1] + SeqSum(Tail(s))

\* (mutant) the index filter lets every row through
RowsAtAll(df, idxs) == df.rows

\* the rows of df whose index is in idxs
RowsAt(df, idxs) == SelectSeq(df.rows, LAMBDA r : r.idx \in idxs)

\* (mutant) a sum of zero is taken for no slack element
SlackPowerZeroAbsent(network, converged) ==
    LET ext == network.res["res_ext_grid"]
        rgen == network.res["res_gen"]
        ext_on == converged /\ ~DfEmpty(ext)
        ext_p == IF ext_on /\ HasColumn(ext, "p_mw") THEN SeqSum(Column(ext, "p_mw")) ELSE 0
        ext_q == IF ext_on /\ HasColumn(ext, "q_mvar") THEN SeqSum(Column(ext, "q_mvar")) ELSE 0
        slack_gen_indices == {network.gen.rows[i].idx : i \in
                                {j \in 1..Len(network.gen.rows) : network.gen.rows[j].slack}}
        gen_on == /\ converged
                  /\ network.gen.rows # <<>>
                  /\ network.gen.has_slack_column
                  /\ slack_gen_indices # {}
                  /\ ~DfEmpty(rgen)
        sel == [present |-> TRUE, columns |-> rgen.columns,
                rows |-> RowsAt(rgen, slack_gen_indices)]
        gen_p == IF gen_on /\ HasColumn(rgen, "p_mw") THEN SeqSum(Column(sel, "p_mw")) ELSE 0
        gen_q == IF gen_on /\ HasColumn(rgen, "q_mvar") THEN SeqSum(Column(sel, "q_mvar")) ELSE 0
        has_slack == \/ ext_on /\ HasColumn(ext, "p_mw")
                     \/ gen_on /\ HasColumn(rgen, "p_mw")
    IN [slack_p_mw |-> IF has_slack /\ ext_p + gen_p # 0
                       THEN Some(Round4(ext_p + gen_p)) ELSE None,
        slack_q_mvar |-> IF has_slack /\ ext_q + gen_q # 0
                         THEN Some(Round4(ext_q + gen_q)) ELSE None]

\* slack_p_mw, slack_q_mvar of run_powerflow
SlackPower(network, converged) ==
    LET ext == network.res["res_ext_grid"]
        rgen == network.res["res_gen"]
        ext_on == converged /\ ~DfEmpty(ext)
        ext_p == IF ext_on /\ HasColumn(ext, "p_mw") THEN SeqSum(Column(ext, "p_mw")) ELSE 0
        ext_q == IF ext_on /\ HasColumn(ext, "q_mvar") THEN SeqSum(Column(ext, "q_mvar")) ELSE 0
        slack_gen_indices == {network.gen.rows[i].idx : i \in
                                {j \in 1..Len(network.gen.rows) : network.gen.rows[j].slack}}
        gen_on == /\ converged
                  /\ network.gen.rows # <<>>
                  /\ network.gen.has_slack_column
                  /\ slack_gen_indices # {}
                  /\ ~DfEmpty(rgen)
        sel == [present |-> TRUE, columns |-> rgen.columns,
                rows |-> RowsAt(rgen, slack_gen_indices)]
        gen_p == IF gen_on /\ HasColumn(rgen, "p_mw") THEN SeqSum(Column(sel, "p_mw")) ELSE 0
        gen_q == IF gen_on /\ HasColumn(rgen, "q_mvar") THEN SeqSum(Column(sel, "q_mvar")) ELSE 0
        has_slack == \/ ext_on /\ HasColumn(ext, "p_mw")
                     \/ gen_on /\ HasColumn(rgen, "p_mw")
    IN [slack_p_mw |-> IF has_slack THEN Some(Round4(ext_p + gen_p)) ELSE None,
        slack_q_mvar |-> IF has_slack THEN Some(Round4(ext_q + gen_q)) ELSE None]

ALGORITHM_DEFAULT_ITERATIONS ==
    [a \in {"nr", "iwamoto_nr", "bfsw", "gs", "fdbx", "fdxb"} |->
        CASE a \in {"nr", "iwamoto_nr"} -> 10
          [] a = "bfsw" -> 100
          [] a = "gs" -> 1000
          [] a \in {"fdbx", "fdxb"} -> 30]

DEFAULT_ITERATION_FALLBACK == 30

\* (mutant) an explicit 0 is taken for no value
ResolveMaxIterationFalsy(algorithm, max_iteration) ==
    IF max_iteration = None \/ max_iteration[1] = 0
    THEN IF algorithm \in DOMAIN ALGORITHM_DEFAULT_ITERATIONS
         THEN ALGORITHM_DEFAULT_ITERATIONS[algorithm]
         ELSE DEFAULT_ITERATION_FALLBACK
    ELSE max_iteration[1]

\* lines 181-191 of run_powerflow
ResolveMaxIteration(algorithm, max_iteration) ==
    IF max_iteration = None
    THEN IF algorithm \in DOMAIN ALGORITHM_DEFAULT_ITERATIONS
         THEN ALGORITHM_DEFAULT_ITERATIONS[algorithm]
         ELSE DEFAULT_ITERATION_FALLBACK
    ELSE max_iteration[1]

\* PowerFlowResult(converged=False, message=..., calculation_log=...): every
\* other field takes its default
FailedResult(message, calc_log) ==
    [converged |-> FALSE,
     message |-> message,
     iterations |-> None,
     calculation_log |-> Some(calc_log),
     tables |-> NullTables,
     max_loading_percent |-> None,
     min_vm_pu |-> None,
     max_vm_pu |-> None]

\* (mutant) the log takes the captured warnings, which the raise left empty
SolverRaisedResultCapturedWarnings(request, resolved_max_iteration, error) ==
    FailedResult("Power flow calculation failed: " \o error,
                 [algorithm |-> request.algorithm,
                  init_method |-> request.init,
                  max_iteration |-> resolved_max_iteration,
                  iterations |-> None,
                  warnings |-> <<>>,
                  slack_p_mw |-> None,
                  slack_q_mvar |-> None])

\* the except branch of run_powerflow
SolverRaisedResult(request, resolved_max_iteration, error) ==
    FailedResult("Power flow calculation failed: " \o error,
                 [algorithm |-> request.algorithm,
                  init_method |-> request.init,
                  max_iteration |-> resolved_max_iteration,
                  iterations |-> None,
                  warnings |-> <<error>>,
                  slack_p_mw |-> None,
                  slack_q_mvar |-> None])

\* (mutant) the non-convergence notice is not appended
NotConvergedResultWithoutNotice(calc_log) ==
    FailedResult("Power flow did not converge", calc_log)

\* (mutant) the notice is put before the captured warnings
NotConvergedResultNoticeFirst(calc_log) ==
    FailedResult("Power flow did not converge",
                 [calc_log EXCEPT !.warnings = <<"Power flow did not converge">> \o @])

\* the else branch of `if converged`
NotConvergedResult(calc_log) ==
    FailedResult("Power flow did not converge",
                 [calc_log EXCEPT !.warnings = Append(@, "Power flow did not converge")])

\* pp.runpp mutates the network in place: the convergence flag, the result
\* tables and the internal iteration count are the solver's
Solved(network, out) ==
    [network EXCEPT !.converged = out.converged, !.res = out.res,
                    !.iterations = out.iterations]

\* run_powerflow on a service whose solver call ends as `out` says: the
\* service afterwards (network mutated, _results replaced), the exception
\* that escapes to the caller if any, and the returned result
RunPowerflow(service, request, out) ==
    LET resolved_max_iteration == ResolveMaxIteration(request.algorithm, request.max_iteration)
        network == Solved(service.network, out)
        slack == SlackPower(network, network.converged)
        calc_log == [algorithm |-> request.algorithm,
                     init_method |-> request.init,
                     max_iteration |-> resolved_max_iteration,
                     iterations |-> network.iterations,
                     warnings |-> out.warnings,
                     slack_p_mw |-> slack.slack_p_mw,
                     slack_q_mvar |-> slack.slack_q_mvar]
        results ==
            IF out.raises
            THEN SolverRaisedResult(request, resolved_max_iteration, out.error)
            ELSE IF network.converged
            THEN [ExtractResults(network) EXCEPT
                     !.message = "Power flow converged successfully",
                     !.calculation_log = Some(calc_log)]
            ELSE NotConvergedResult(calc_log)
    IN [service |-> [service EXCEPT !.network = network, !._results = Some(results)],
        raised |-> None,
        result |-> Some(results)]

\* ------------------------------------------------------- the export encoder
\* `x or "N/A"` of the summary sheet: None and 0 are both falsy
OrNA(x) == IF x = None \/ x[1] = 0 THEN [text |-> "N/A"] ELSE [number |-> x[1]]

\* (mutant) the loop stops before the last table
RECURSIVE TableSheetsButLast(_, _)
TableSheetsButLast(results, i) ==
    IF i > Len(TableNames) - 1 THEN <<>>
    ELSE LET table_data == results.tables[TableNames[i]]
         IN (IF table_data # None /\ table_data[1].row_count > 0
             THEN <<[sheet_name |-> TableNames[i], rows |-> table_data[1].data]>>
             ELSE <<>>) \o TableSheetsButLast(results, i + 1)

\* the sheets of the result tables, in the order of the loop
RECURSIVE TableSheets(_, _)
TableSheets(results, i) ==
    IF i > Len(TableNames) THEN <<>>
    ELSE LET table_data == results.tables[TableNames[i]]
         IN (IF table_data # None /\ table_data[1].row_count > 0
             THEN <<[sheet_name |-> TableNames[i], rows |-> table_data[1].data]>>
             ELSE <<>>) \o TableSheets(results, i + 1)

\* the Summary sheet
SummarySheet(r) ==
    [sheet_name |-> "Summary",
     rows |-> <<[Metric |-> "Converged",
                 Value |-> [text |-> IF r.converged THEN "Yes" ELSE "No"]],
                [Metric |-> "Max Loading (%)", Value |-> OrNA(r.max_loading_percent)],
                [Metric |-> "Min Voltage (p.u.)", Value |-> OrNA(r.min_vm_pu)],
                [Metric |-> "Max Voltage (p.u.)", Value |-> OrNA(r.max_vm_pu)]>>]

\* (mutant) only an absent result is refused
ExportResultsToExcelOfAnyResult(service) ==
    IF service._results = None
    THEN [error |-> Some("No converged results available to export"), sheets |-> <<>>,
          service |-> service]
    ELSE [error |-> None,
          sheets |-> TableSheets(service._results[1], 1)
                     \o <<SummarySheet(service._results[1])>>,
          service |-> service]

\* export_results_to_excel: the ValueError it raises or the workbook, and the
\* service afterwards
ExportResultsToExcel(service) ==
    IF service._results = None \/ ~service._results[1].converged
    THEN [error |-> Some("No converged results available to export"), sheets |-> <<>>,
          service |-> service]
    ELSE [error |-> None,
          sheets |-> TableSheets(service._results[1], 1)
                     \o <<SummarySheet(service._results[1])>>,
          service |-> service]

\* ------------------------------------------------------- the network loader
FILE_FORMATS ==
    [f \in {"json", "excel", "pickle", "sqlite"} |->
        CASE f = "json" -> {".json"}
          [] f = "excel" -> {".xlsx", ".xls"}
          [] f = "pickle" -> {".p", ".pkl", ".pickle"}
          [] f = "sqlite" -> {".sqlite", ".db"}]

\* detect_format on the lower-cased suffix of the filename
DetectFormat(ext) ==
    IF \E f \in DOMAIN FILE_FORMATS : ext \in FILE_FORMATS[f]
    THEN Some(CHOOSE f \in DOMAIN FILE_FORMATS : ext \in FILE_FORMATS[f])
    ELSE None

\* A filename is a sequence of pieces: a dot, a letter, or a word that
\* occurs as an extension, in some spelling.
NameTokens == {".", "a", "json", "JSON", "Xlsx", "xls", "p", "PKL", "pickle",
               "sqlite", "Db", "txt"}

\* (mutant) the suffix is compared as it is spelled
NotLowered(token) == token

\* str.lower() of a piece
Lower(token) ==
    CASE token = "JSON" -> "json"
      [] token = "Xlsx" -> "xlsx"
      [] token = "PKL" -> "pkl"
      [] token = "Db" -> "db"
      [] OTHER -> token

\* the pieces of a name as one string
RECURSIVE Concat(_)
Concat(tokens) == IF tokens = <<>> THEN "" ELSE Head(tokens) \o Concat(Tail(tokens))

\* name.rfind('.'), counted from 1; 0 if there is no dot
LastDot(name) ==
    IF \E i \in 1..Len(name) : name[i] = "."
    THEN CHOOSE i \in 1..Len(name) :
            name[i] = "." /\ \A j \in (i + 1)..Len(name) : name[j] # "."
    ELSE 0

\* Path(filename).suffix of a name without directory part: from the last
\* dot on, unless that dot begins or ends the name
Suffix(name) ==
    LET i == LastDot(name)
    IN IF 1 < i /\ i < Len(name) THEN SubSeq(name, i, Len(name)) ELSE <<>>

\* detect_format(filename)
DetectFormatOfFilename(filename) ==
    LET suffix == Suffix(filename)
    IN DetectFormat(Concat([k \in 1..Len(suffix) |-> Lower(suffix[k])]))

\* (mutant) the constructor starts the cache with a placeholder result
PowerFlowServiceWithPlaceholder(network, filename, file_format) ==
    [network |-> network, filename |-> filename, file_format |-> file_format,
     _results |-> Some([converged |-> FALSE, message |-> "", iterations |-> None,
                        calculation_log |-> None, tables |-> NullTables,
                        max_loading_percent |-> None, min_vm_pu |-> None,
                        max_vm_pu |-> None])]

\* PowerFlowService.__init__
PowerFlowService(network, filename, file_format) ==
    [network |-> network, filename |-> filename, file_format |-> file_format,
     _results |-> None]

\* isinstance(network, pandapowerNet)
IsPandapowerNet(x) == "n_bus" \in DOMAIN x

\* an exception: its class, whether the class derives from ValueError, and
\* str(e)
Exc(type, is_value_error, message) ==
    [type |-> type, is_value_error |-> is_value_error, message |-> message]

\* load_network: the exception that leaves it or the service it returns, and
\* what has become of the scratch file ("none" was created, "unlinked",
\* or "exists").  NamedTemporaryFile(delete=False) and tmp_file.write stand
\* before the try statement whose finally clause unlinks the file; the
\* except clause re-raises an exception that is a ValueError as it is and
\* wraps any other.
LoadNetwork(upload) ==
    LET file_format == DetectFormat(upload.ext)
        ValueError(message) == Some(Exc("ValueError", TRUE, message))
    IN IF file_format = None
       THEN [raised |-> ValueError("Unsupported file format. Supported formats: .json, .xlsx, .xls, .p, .pkl, .pickle, .sqlite, .db"),
             service |-> None, tmp |-> "none"]
       ELSE IF upload.write_error # None
       THEN [raised |-> upload.write_error, service |-> None, tmp |-> "exists"]
       ELSE IF upload.parse_error # None
       THEN [raised |-> IF upload.parse_error[1].is_value_error THEN upload.parse_error
                        ELSE ValueError("Failed to load network: "
                                        \o upload.parse_error[1].message),
             service |-> None, tmp |-> "unlinked"]
       ELSE IF ~IsPandapowerNet(upload.parsed)
       THEN [raised |-> ValueError("File does not contain a valid pandapower network"),
             service |-> None, tmp |-> "unlinked"]
       ELSE IF upload.parsed.n_bus = 0
       THEN [raised |-> ValueError("Network must contain at least one bus"),
             service |-> None, tmp |-> "unlinked"]
       ELSE [raised |-> None,
             service |-> Some(PowerFlowService(upload.parsed, upload.filename,
                                               file_format[1])),
             tmp |-> "unlinked"]

\* --------------------------------------------------------- the session file
\* A session file is a sequence of flushed regions.  pickle.dump through a
\* buffered writer reaches the file in two regions: the head (network,
\* filename, file_format) and the tail (results and the STOP opcode).
NulChunk == [nul |-> TRUE, last |-> FALSE, d |-> <<>>]

NoFile == [exists |-> FALSE, data |-> <<>>]

\* (mutant) the record is written without the service's results
SessionDataWithoutResults(service) ==
    [network |-> service.network, filename |-> service.filename,
     file_format |-> service.file_format, results |-> None]

\* session_data of create_session and update_session
SessionData(service) ==
    [network |-> service.network, filename |-> service.filename,
     file_format |-> service.file_format, results |-> service._results]

PickleDump(session_data) ==
    <<[nul |-> FALSE, last |-> FALSE,
       d |-> [network |-> session_data.network, filename |-> session_data.filename,
              file_format |-> session_data.file_format]],
      [nul |-> FALSE, last |-> TRUE, d |-> [results |-> session_data.results]]>>

RECURSIVE MergeChunks(_, _)
MergeChunks(data, k) ==
    IF k = 1 THEN data[1].d ELSE MergeChunks(data, k - 1) @@ data[k].d

\* pickle.load: reads up to the first STOP opcode and ignores what follows;
\* exc is "" when an object is returned
PickleLoad(data) ==
    LET stops == {i \in 1..Len(data) : ~data[i].nul /\ data[i].last}
        k == CHOOSE i \in stops : \A j \in stops : i <= j
    IN IF stops = {}
       THEN [exc |-> IF \E i \in 1..Len(data) : data[i].nul
                     THEN "UnpicklingError" ELSE "EOFError",
             obj |-> <<>>]
       ELSE IF \E i \in 1..k : data[i].nul
       THEN [exc |-> "UnpicklingError", obj |-> <<>>]
       ELSE [exc |-> "", obj |-> MergeChunks(data, k)]

\* a write of one region at offset pos through a file object opened "wb"
WriteAt(data, pos, chunk) ==
    [i \in 1..(IF pos > Len(data) THEN pos ELSE Len(data)) |->
        IF i = pos THEN chunk
        ELSE IF i <= Len(data) THEN data[i] ELSE NulChunk]

\* (mutant) the reconstruction passes the filename where the format belongs
TryLoadSessionSwapped(file) ==
    IF ~file.exists THEN [exc |-> "FileNotFoundError", service |-> None]
    ELSE LET loaded == PickleLoad(file.data)
             session_data == loaded.obj
         IN IF loaded.exc # "" THEN [exc |-> loaded.exc, service |-> None]
            ELSE IF {"network", "filename", "file_format"} \subseteq DOMAIN session_data
            THEN [exc |-> "",
                  service |-> Some([network |-> session_data.network,
                                    filename |-> session_data.filename,
                                    file_format |-> session_data.filename,
                                    _results |-> IF "results" \in DOMAIN session_data
                                                 THEN session_data.results ELSE None])]
            ELSE [exc |-> "KeyError", service |-> None]

\* the try block of get_session: the exception raised inside it ("" if
\* none) and the reconstructed service
TryLoadSession(file) ==
    IF ~file.exists THEN [exc |-> "FileNotFoundError", service |-> None]
    ELSE LET loaded == PickleLoad(file.data)
             session_data == loaded.obj
         IN IF loaded.exc # "" THEN [exc |-> loaded.exc, service |-> None]
            ELSE IF {"network", "filename", "file_format"} \subseteq DOMAIN session_data
            THEN [exc |-> "",
                  service |-> Some([network |-> session_data.network,
                                    filename |-> session_data.filename,
                                    file_format |-> session_data.file_format,
                                    _results |-> IF "results" \in DOMAIN session_data
                                                 THEN session_data.results ELSE None])]
            ELSE [exc |-> "KeyError", service |-> None]

\* (mutant) the except clause names the pickle and I/O errors only
GetSessionOpenedNarrowExcept(file) ==
    LET t == TryLoadSession(file)
    IN [raised |-> IF t.exc = "KeyError" THEN Some(t.exc) ELSE None,
        caught |-> IF t.exc = "KeyError" THEN "" ELSE t.exc,
        service |-> IF t.exc = "" THEN t.service ELSE None]

\* (mutant) the file is opened outside the try block
GetSessionOpenedOutsideTry(file) ==
    LET t == TryLoadSession(file)
    IN [raised |-> IF t.exc = "FileNotFoundError" THEN Some(t.exc) ELSE None,
        caught |-> IF t.exc = "FileNotFoundError" THEN "" ELSE t.exc,
        service |-> IF t.exc = "" THEN t.service ELSE None]

\* get_session past its existence check: `except Exception` turns every
\* exception of the try block into None
GetSessionOpened(file) ==
    LET t == TryLoadSession(file)
    IN [raised |-> None, caught |-> t.exc,
        service |-> IF t.exc = "" THEN t.service ELSE None]

\* ------------------------------------------------------------ the inputs
EmptyDf(columns) == [present |-> TRUE, columns |-> columns, rows |-> <<>>]

\* the result tables of a network that has not been solved
UnsolvedRes ==
    [t \in TableSet |->
        IF t \in {"res_trafo3w", "res_shunt"} THEN AbsentDf
        ELSE IF t = "res_bus" THEN EmptyDf(<<"vm_pu">>)
        ELSE IF t \in {"res_line", "res_trafo"} THEN EmptyDf(<<"loading_percent">>)
        ELSE EmptyDf(<<"p_mw", "q_mvar">>)]

NoNames == [has_name_column |-> FALSE, name |-> <<>>]

NetA ==
    [id |-> "netA", n_bus |-> 2,
     names |-> [bus |-> [has_name_column |-> TRUE, name |-> (0 :> "Bus 0" @@ 1 :> " ")],
                line |-> [has_name_column |-> TRUE, name |-> (0 :> NaN)],
                trafo |-> NoNames, load |-> NoNames, gen |-> NoNames,
                sgen |-> NoNames, ext_grid |-> NoNames],
     gen |-> [has_slack_column |-> TRUE, rows |-> <<[idx |-> 0, slack |-> TRUE]>>],
     converged |-> FALSE, iterations |-> None, res |-> UnsolvedRes]

NetB ==
    [id |-> "netB", n_bus |-> 2,
     names |-> [bus |-> NoNames, line |-> NoNames, trafo |-> NoNames, load |-> NoNames,
                gen |-> NoNames, sgen |-> NoNames, ext_grid |-> NoNames],
     gen |-> [has_slack_column |-> TRUE, rows |-> <<[idx |-> 0, slack |-> FALSE]>>],
     converged |-> FALSE, iterations |-> None, res |-> UnsolvedRes]

NetNoBus == [NetB EXCEPT !.id = "netEmpty", !.n_bus = 0]

\* what a client may upload: the filename, its lower-cased suffix, the
\* exception of writing the bytes to the scratch file if that fails, and
\* what the format's deserializer makes of the bytes: an exception of the
\* library's (some derive from ValueError) or an object
\* an object a deserializer can return that is no pandapowerNet
NotANetwork == [id |-> "dict"]

Uploads ==
    {[filename |-> "a.json", ext |-> ".json", write_error |-> None,
      parse_error |-> None, parsed |-> NetA],
     [filename |-> "B.XLSX", ext |-> ".xlsx", write_error |-> None,
      parse_error |-> None, parsed |-> NetB],
     [filename |-> "c.txt", ext |-> ".txt", write_error |-> None,
      parse_error |-> None, parsed |-> NetA],
     [filename |-> "d.pkl", ext |-> ".pkl", write_error |-> None,
      parse_error |-> Some(Exc("UnpicklingError", FALSE, "invalid load key")),
      parsed |-> NotANetwork],
     [filename |-> "h.json", ext |-> ".json", write_error |-> None,
      parse_error |-> Some(Exc("JSONDecodeError", TRUE, "Expecting value: line 1 column 1 (char 0)")),
      parsed |-> NotANetwork],
     [filename |-> "f.p", ext |-> ".p", write_error |-> None,
      parse_error |-> None, parsed |-> NotANetwork],
     [filename |-> "e.json", ext |-> ".json", write_error |-> None,
      parse_error |-> None, parsed |-> NetNoBus],
     [filename |-> "i.db", ext |-> ".db", write_error |-> None,
      parse_error |-> None, parsed |-> NetNoBus],
     [filename |-> "g.json", ext |-> ".json",
      write_error |-> Some(Exc("OSError", FALSE, "[Errno 28] No space left on device")),
      parse_error |-> None, parsed |-> NetA]}

\* the uploads made next to the traffic on the session store: two that load
\* and one that does not
SessionUploads == {u \in Uploads : u.filename \in {"a.json", "B.XLSX", "e.json"}}

Row(idx, vals) == [idx |-> idx, vals |-> vals]

SolvedRes ==
    [UnsolvedRes EXCEPT
       !["res_bus"] = [present |-> TRUE, columns |-> <<"vm_pu">>,
                       rows |-> <<Row(0, [vm_pu |-> 102]), Row(1, [vm_pu |-> 98])>>],
       !["res_line"] = [present |-> TRUE, columns |-> <<"loading_percent">>,
                        rows |-> <<Row(0, [loading_percent |-> 45])>>],
       !["res_gen"] = [present |-> TRUE, columns |-> <<"p_mw", "q_mvar">>,
                       rows |-> <<Row(0, [p_mw |-> 7, q_mvar |-> 2])>>],
       !["res_ext_grid"] = [present |-> TRUE, columns |-> <<"p_mw", "q_mvar">>,
                            rows |-> <<Row(0, [p_mw |-> 3, q_mvar |-> -1])>>]]

\* how a call of the external solver can end: it raises, or it returns with
\* the convergence flag set or cleared, having emitted warnings
SolverOutcomes ==
    {[raises |-> FALSE, error |-> "", warnings |-> <<"numba cannot be imported">>,
      converged |-> TRUE, iterations |-> Some(3), res |-> SolvedRes],
     [raises |-> FALSE, error |-> "", warnings |-> <<>>,
      converged |-> FALSE, iterations |-> Some(10), res |-> UnsolvedRes],
     [raises |-> TRUE, error |-> "Power Flow nr did not converge after 10 iterations!",
      warnings |-> <<"numba cannot be imported">>,
      converged |-> FALSE, iterations |-> None, res |-> UnsolvedRes]}

\* PowerFlowRequest bodies
RunRequests ==
    {[algorithm |-> "nr", max_iteration |-> None, init |-> "auto"]}

\* ------------------------------------- the inputs of run_powerflow alone
SeqsUpTo(S, n) == UNION {[1..k -> S] : k \in 0..n}

\* active and reactive power of one result row
PQ == {[p_mw |-> -3, q_mvar |-> 1], [p_mw |-> 0, q_mvar |-> 0], [p_mw |-> 3, q_mvar |-> -1]}

\* net.gen of a network: with the slack column every combination of flags,
\* without it (a table read from a file that lacks the column) the rows only
GenTables ==
    {[has_slack_column |-> TRUE, rows |-> [i \in 1..Len(f) |-> [idx |-> i - 1, slack |-> f[i]]]] :
        f \in SeqsUpTo(BOOLEAN, MaxRows)}
    \cup {[has_slack_column |-> FALSE, rows |-> [i \in 1..k |-> [idx |-> i - 1, slack |-> FALSE]]] :
            k \in 1..MaxRows}

\* the networks under a run: generator names with blanks around them and
\* blank, external grids whose name table lacks their index
RunNetworks ==
    {[NetA EXCEPT !.id = "net", !.gen = g,
                  !.names.gen = [has_name_column |-> TRUE, name |-> (0 :> " G0 " @@ 1 :> "")],
                  !.names.ext_grid = [has_name_column |-> TRUE, name |-> <<>>]] :
        g \in GenTables}

Algorithms == {"nr", "iwamoto_nr", "bfsw", "gs", "fdbx", "fdxb", "newton"}

AllRunRequests ==
    {[algorithm |-> a, max_iteration |-> m, init |-> "auto"] :
        a \in Algorithms, m \in {None, Some(0), Some(7)}}

DefaultRequest == [algorithm |-> "nr", max_iteration |-> None, init |-> "auto"]

WarningSeqs == SeqsUpTo({"numba cannot be imported", "matrix is singular"}, MaxWarnings)

Min(a, b) == IF a <= b THEN a ELSE b

PQColumns == <<"p_mw", "q_mvar">>

\* a result table with one row per given record of values
Table(columns, idxs, vals) ==
    [present |-> TRUE, columns |-> columns,
     rows |-> [i \in 1..Len(vals) |-> Row(idxs[i], vals[i])]]

Count(n) == [i \in 1..n |-> i - 1]

\* the result tables pp.runpp leaves on a network it solved: one res_ext_grid
\* row per external grid, one res_gen row per generator, and the other
\* tables as `shape` says
ResultTables(network, ext, gen, shape) ==
    [t \in TableSet |->
        CASE t = "res_ext_grid" -> Table(PQColumns, Count(Len(ext)), ext)
          [] t = "res_gen" ->
               Table(PQColumns, [i \in 1..Len(gen) |-> network.gen.rows[i].idx], gen)
          [] t = "res_bus" ->
               Table(<<"vm_pu">>, Count(Len(shape.bus)),
                     [i \in 1..Len(shape.bus) |-> [vm_pu |-> shape.bus[i]]])
          [] t = "res_line" ->
               Table(<<"loading_percent">>, Count(Len(shape.line)),
                     [i \in 1..Len(shape.line) |-> [loading_percent |-> shape.line[i]]])
          [] t = "res_trafo" ->
               Table(<<"loading_percent">>, Count(Len(shape.trafo)),
                     [i \in 1..Len(shape.trafo) |-> [loading_percent |-> shape.trafo[i]]])
          [] t = "res_trafo3w" ->
               IF t \in shape.others
               THEN Table(<<"loading_percent">>, Count(1), <<[loading_percent |-> 30]>>)
               ELSE AbsentDf
          [] t = "res_shunt" ->
               IF t \in shape.others
               THEN Table(PQColumns, Count(1), <<[p_mw |-> 0, q_mvar |-> -2]>>)
               ELSE AbsentDf
          [] OTHER ->
               IF t \in shape.others
               THEN Table(PQColumns, Count(1), <<[p_mw |-> 5, q_mvar |-> 1]>>)
               ELSE EmptyDf(PQColumns)]

\* which of the other tables have rows, and the loadings of lines and trafos
\* (a negative rating in the uploaded network gives a negative loading), and
\* the voltages of the buses in hundredths of a per-unit; a bus table without
\* rows is allowed for, as the code does, though load_network admits no
\* network without buses
Shapes ==
    {[bus |-> b, line |-> l, trafo |-> t, others |-> o] :
        b \in {<<102, 98>>, <<100>>, <<>>},
        l \in {<<>>, <<0>>, <<45>>, <<10, 45>>, <<-5>>},
        t \in {<<>>, <<0>>, <<60>>, <<-5>>},
        o \in SUBSET {"res_trafo3w", "res_load", "res_sgen", "res_shunt"}}

PlainShape == [bus |-> <<102, 98>>, line |-> <<45>>, trafo |-> <<>>, others |-> {}]

\* pp.runpp called with the cap max_iteration: it raises (the warnings it
\* emitted before are lost with the recording context), or returns having
\* stopped at the cap without converging, or having converged
RaisedOutcome ==
    [raises |-> TRUE, error |-> "Power Flow nr did not converge after 10 iterations!",
     warnings |-> <<"numba cannot be imported">>,
     converged |-> FALSE, iterations |-> None, res |-> UnsolvedRes]

NotConvergedOutcome(max_iteration, warnings) ==
    [raises |-> FALSE, error |-> "", warnings |-> warnings,
     converged |-> FALSE, iterations |-> Some(max_iteration), res |-> UnsolvedRes]

ConvergedOutcome(max_iteration, warnings, res) ==
    [raises |-> FALSE, error |-> "", warnings |-> warnings,
     converged |-> TRUE, iterations |-> Some(Min(3, max_iteration)), res |-> res]

\* the calls of run_powerflow on a service that holds `network`: every
\* request with every way the solver can end on a plain network, and the
\* default request with every solved state of the network's tables
RunCases(network) ==
    LET n_gen == Len(network.gen.rows)
        plain == ResultTables(network, <<[p_mw |-> 3, q_mvar |-> -1]>>,
                              [i \in 1..n_gen |-> [p_mw |-> 7, q_mvar |-> 2]], PlainShape)
        cap(r) == ResolveMaxIteration(r.algorithm, r.max_iteration)
    IN {[request |-> r, out |-> RaisedOutcome] : r \in AllRunRequests}
       \cup {[request |-> r, out |-> NotConvergedOutcome(cap(r), ws)] :
               r \in AllRunRequests, ws \in WarningSeqs}
       \cup {[request |-> r, out |-> ConvergedOutcome(cap(r), ws, plain)] :
               r \in AllRunRequests, ws \in WarningSeqs}
       \cup {[request |-> DefaultRequest,
              out |-> ConvergedOutcome(cap(DefaultRequest), <<>>,
                                       ResultTables(network, ext, gen, PlainShape))] :
               ext \in SeqsUpTo(PQ, MaxRows), gen \in [1..n_gen -> PQ]}
       \cup {[request |-> DefaultRequest,
              out |-> ConvergedOutcome(cap(DefaultRequest), <<>>,
                                       ResultTables(network, <<[p_mw |-> 3, q_mvar |-> -1]>>,
                                                    [i \in 1..n_gen |-> [p_mw |-> 7, q_mvar |-> 2]],
                                                    shape))] :
               shape \in Shapes}

NoRequest == [kind |-> "none", session_id |-> NoSuchId, body |-> None]

NoResponse == [status_code |-> 0, detail |-> "", body |-> None]

HTTPException(status_code, detail) ==
    [status_code |-> status_code, detail |-> detail, body |-> None]

Ok(body) == [status_code |-> 200, detail |-> "", body |-> Some(body)]

\* -------------------------------------------------------------- the state
VARIABLES
    files,      \* session id -> the session file at _get_session_path(id)
    pc,         \* worker -> where it is in the request it serves
    req,        \* worker -> the request it serves
    svc,        \* worker -> the PowerFlowService it holds (Optional)
    result,     \* worker -> what service.run_powerflow returned to the run endpoint (Optional)
    fd,         \* worker -> does its open file object still refer to the file at the path
    resp,       \* worker -> the response to the last request it finished
    issued,     \* the session ids returned to clients
    nreq,       \* requests started so far
    created,    \* history: id -> the service create_session stored (Optional)
    life,       \* history: id -> "unused", "fresh", "updated" or "deleted"
    quiet,      \* history: ids unlinked while no update_session was about to open them
    wh,         \* history: worker -> what its update_session found and whether it wrote alone
    ret,        \* history: worker -> the last session-store call that returned, and what
    tmp,        \* worker -> the scratch file of the load_network call it made: "none", "unlinked", "exists"
    runpp       \* history: worker -> how the pp.runpp call it made ended (Optional)

vars == <<files, pc, req, svc, result, fd, resp, issued, nreq, created, life, quiet, wh, ret,
          tmp, runpp>>

FileIds == Ids \cup {NoSuchId}

NoWh == [pre |-> None, solo |-> FALSE]

NoRet == [fn |-> "", at |-> "", returns |-> "", caught |-> ""]

\* a call of the session store returned: at which statement, what, and the
\* exception its except branch caught ("" if none)
Returned(fn, at, returns) == [fn |-> fn, at |-> at, returns |-> returns, caught |-> ""]

Init ==
    /\ files = [i \in FileIds |-> NoFile]
    /\ pc = [w \in Workers |-> "idle"]
    /\ req = [w \in Workers |-> NoRequest]
    /\ svc = [w \in Workers |-> None]
    /\ result = [w \in Workers |-> None]
    /\ fd = [w \in Workers |-> FALSE]
    /\ resp = [w \in Workers |-> NoResponse]
    /\ issued = {}
    /\ nreq = 0
    /\ created = [i \in Ids |-> None]
    /\ life = [i \in Ids |-> "unused"]
    /\ quiet = {}
    /\ wh = [w \in Workers |-> NoWh]
    /\ ret = [w \in Workers |-> NoRet]
    /\ tmp = [w \in Workers |-> "none"]
    /\ runpp = [w \in Workers |-> None]

\* workers that hold the file of session id open for writing
Writers(id) == {w \in Workers : req[w].session_id = id /\ pc[w] \in {"upd_dump1", "upd_dump2"}}

\* (mutant) an identifier that may be one a session already has
IdsOfAnySession == Ids

\* uuid.uuid4(): an identifier no session has had
FreshIds == {i \in Ids : life[i] = "unused" /\ \A j \in Ids : life[j] = "unused" => i <= j}

\* ------------------------------------------------------------ the actions
\* POST /upload: load_network, create_session and the response.  The new
\* file's path is known to no other request until the identifier is
\* returned, so the handler is one step.
Upload(w, uploads) ==
    /\ pc[w] = "idle"
    /\ nreq < MaxRequests
    /\ \E upload \in uploads :
         LET loaded == LoadNetwork(upload)
         IN /\ tmp' = [tmp EXCEPT ![w] = loaded.tmp]
            /\ req' = [req EXCEPT ![w] =
                         [kind |-> "upload", session_id |-> NoSuchId, body |-> Some(upload)]]
            /\ IF loaded.raised # None
               THEN /\ resp' = [resp EXCEPT ![w] =
                                  IF loaded.raised[1].is_value_error
                                  THEN HTTPException(400, loaded.raised[1].message)
                                  ELSE HTTPException(500, "Internal error while loading network: "
                                                          \o loaded.raised[1].message)]
                    /\ ret' = [ret EXCEPT ![w] =
                                 Returned("load_network", "raise", loaded.raised[1].type)]
                    /\ UNCHANGED <<files, issued, created, life>>
               ELSE /\ FreshIds # {}
                    /\ \E session_id \in FreshIds :
                         /\ files' = [files EXCEPT ![session_id] =
                                        [exists |-> TRUE,
                                         data |-> PickleDump(SessionData(loaded.service[1]))]]
                         /\ issued' = issued \cup {session_id}
                         /\ created' = [created EXCEPT ![session_id] = loaded.service]
                         /\ life' = [life EXCEPT ![session_id] = "fresh"]
                         /\ ret' = [ret EXCEPT ![w] = Returned("create_session", "close", "id")]
                         /\ resp' = [resp EXCEPT ![w] =
                                       Ok([session_id |-> session_id,
                                           filename |-> upload.filename,
                                           file_format |-> loaded.service[1].file_format,
                                           n_bus |-> loaded.service[1].network.n_bus])]
    /\ svc' = [svc EXCEPT ![w] = None]
    /\ result' = [result EXCEPT ![w] = None]
    /\ nreq' = nreq + 1
    /\ UNCHANGED <<pc, fd, quiet, wh, runpp>>

UploadNetwork(w) == Upload(w, SessionUploads)

\* a worker takes a request that names a session: run, results, download
\* (which begin with get_session) or delete
Receive(w) ==
    /\ pc[w] = "idle"
    /\ nreq < MaxRequests
    /\ \E session_id \in issued \cup {NoSuchId} :
         \/ \E kind \in {"results", "download", "delete"} :
              /\ req' = [req EXCEPT ![w] =
                           [kind |-> kind, session_id |-> session_id, body |-> None]]
              /\ pc' = [pc EXCEPT ![w] = IF kind = "delete" THEN "del_exists" ELSE "get_exists"]
         \/ \E request \in RunRequests :
              /\ req' = [req EXCEPT ![w] =
                           [kind |-> "run", session_id |-> session_id, body |-> Some(request)]]
              /\ pc' = [pc EXCEPT ![w] = "get_exists"]
    /\ svc' = [svc EXCEPT ![w] = None]
    /\ result' = [result EXCEPT ![w] = None]
    /\ resp' = [resp EXCEPT ![w] = NoResponse]
    /\ ret' = [ret EXCEPT ![w] = NoRet]
    /\ tmp' = [tmp EXCEPT ![w] = "none"]
    /\ runpp' = [runpp EXCEPT ![w] = None]
    /\ nreq' = nreq + 1
    /\ UNCHANGED <<files, fd, issued, created, life, quiet, wh>>

\* get_session: `if not session_path.exists(): return None`; every endpoint
\* answers 404 to None
GetSessionExists(w) ==
    /\ pc[w] = "get_exists"
    /\ IF files[req[w].session_id].exists
       THEN /\ pc' = [pc EXCEPT ![w] = "get_open"]
            /\ UNCHANGED <<resp, ret>>
       ELSE /\ pc' = [pc EXCEPT ![w] = "idle"]
            /\ ret' = [ret EXCEPT ![w] = Returned("get_session", "exists", "None")]
            /\ resp' = [resp EXCEPT ![w] = HTTPException(404, "Session not found")]
    /\ UNCHANGED <<files, req, svc, result, fd, issued, nreq, created, life, quiet, wh, tmp, runpp>>

\* what get_results and download_results do with the service they got
ResultsResponse(service) ==
    IF service._results = None
    THEN HTTPException(404, "No results available. Run power flow first.")
    ELSE Ok(service._results[1])

DownloadResponse(service) ==
    LET x == ExportResultsToExcel(service)
    IN IF x.error # None THEN HTTPException(404, x.error[1]) ELSE Ok(x.sheets)

\* get_session: open, pickle.load and the reconstruction, then the rest of
\* get_results / download_results; run_powerflow goes on to the solve
GetSessionOpen(w) ==
    /\ pc[w] = "get_open"
    /\ LET got == GetSessionOpened(files[req[w].session_id])
       IN IF got.raised # None
          THEN /\ pc' = [pc EXCEPT ![w] = "idle"]
               /\ svc' = svc
               /\ ret' = [ret EXCEPT ![w] = Returned("get_session", "open", "raised")]
               /\ resp' = [resp EXCEPT ![w] = HTTPException(500, got.raised[1])]
          ELSE /\ svc' = [svc EXCEPT ![w] =
                            IF got.service # None /\ req[w].kind = "download"
                            THEN Some(ExportResultsToExcel(got.service[1]).service)
                            ELSE got.service]
               /\ ret' = [ret EXCEPT ![w] =
                            [Returned("get_session", "open",
                                      IF got.service = None THEN "None" ELSE "service")
                               EXCEPT !.caught = got.caught]]
               /\ IF got.service = None
                  THEN /\ pc' = [pc EXCEPT ![w] = "idle"]
                       /\ resp' = [resp EXCEPT ![w] = HTTPException(404, "Session not found")]
                  ELSE IF req[w].kind = "run"
                  THEN /\ pc' = [pc EXCEPT ![w] = "solve"]
                       /\ UNCHANGED resp
                  ELSE /\ pc' = [pc EXCEPT ![w] = "idle"]
                       /\ resp' = [resp EXCEPT ![w] =
                                     IF req[w].kind = "results"
                                     THEN ResultsResponse(got.service[1])
                                     ELSE DownloadResponse(got.service[1])]
    /\ UNCHANGED <<files, req, result, fd, issued, nreq, created, life, quiet, wh, tmp, runpp>>

\* service.run_powerflow(...) in the run endpoint
Solve(w) ==
    /\ pc[w] = "solve"
    /\ \E out \in SolverOutcomes :
         LET ran == RunPowerflow(svc[w][1], req[w].body[1], out)
         IN /\ svc' = [svc EXCEPT ![w] = Some(ran.service)]
            /\ runpp' = [runpp EXCEPT ![w] = Some(out)]
            /\ IF ran.raised # None
               THEN /\ pc' = [pc EXCEPT ![w] = "idle"]
                    /\ result' = result
                    /\ resp' = [resp EXCEPT ![w] = HTTPException(500, ran.raised[1])]
               ELSE /\ pc' = [pc EXCEPT ![w] = "upd_exists"]
                    /\ result' = [result EXCEPT ![w] = ran.result]
                    /\ UNCHANGED resp
    /\ UNCHANGED <<files, req, fd, issued, nreq, created, life, quiet, wh, ret, tmp>>

\* (mutant) update_session without its existence check
UpdateSessionExistsUnchecked(w) ==
    /\ pc[w] = "upd_exists"
    /\ pc' = [pc EXCEPT ![w] = "upd_open"]
    /\ UNCHANGED <<files, req, svc, result, fd, resp, issued, nreq, created, life, quiet, wh, ret, tmp, runpp>>

\* update_session: `if not session_path.exists(): return False`; the run
\* endpoint ignores the return value and answers with the result
UpdateSessionExists(w) ==
    /\ pc[w] = "upd_exists"
    /\ IF files[req[w].session_id].exists
       THEN /\ pc' = [pc EXCEPT ![w] = "upd_open"]
            /\ UNCHANGED <<resp, ret>>
       ELSE /\ pc' = [pc EXCEPT ![w] = "idle"]
            /\ ret' = [ret EXCEPT ![w] = Returned("update_session", "exists", "False")]
            /\ resp' = [resp EXCEPT ![w] = Ok(result[w][1])]
    /\ UNCHANGED <<files, req, svc, result, fd, issued, nreq, created, life, quiet, wh, tmp, runpp>>

\* update_session: open(session_path, "wb") truncates the file, or creates it
UpdateSessionOpen(w) ==
    /\ pc[w] = "upd_open"
    /\ LET id == req[w].session_id
       IN /\ files' = [files EXCEPT ![id] = [exists |-> TRUE, data |-> <<>>]]
          /\ life' = [life EXCEPT ![id] = IF @ = "deleted" THEN @ ELSE "updated"]
          /\ wh' = [v \in Workers |->
                      IF v = w
                      THEN [pre |-> TryLoadSession(files[id]).service,
                            solo |-> Writers(id) = {}]
                      ELSE IF v \in Writers(id) THEN [wh[v] EXCEPT !.solo = FALSE]
                      ELSE wh[v]]
    /\ fd' = [fd EXCEPT ![w] = TRUE]
    /\ pc' = [pc EXCEPT ![w] = "upd_dump1"]
    /\ UNCHANGED <<req, svc, result, resp, issued, nreq, created, quiet, ret, tmp, runpp>>

\* the file after worker w's file object flushes region pos of its pickle;
\* an unlinked file takes the write without the path showing it
Flushed(w, id, pos) ==
    IF fd[w]
    THEN [files EXCEPT ![id].data = WriteAt(@, pos, PickleDump(SessionData(svc[w][1]))[pos])]
    ELSE files

\* update_session: pickle.dump, first flush
UpdateSessionDump1(w) ==
    /\ pc[w] = "upd_dump1"
    /\ files' = Flushed(w, req[w].session_id, 1)
    /\ pc' = [pc EXCEPT ![w] = "upd_dump2"]
    /\ UNCHANGED <<req, svc, result, fd, resp, issued, nreq, created, life, quiet, wh, ret, tmp, runpp>>

\* update_session: pickle.dump, last flush and close; returns True and the
\* run endpoint answers with the result
UpdateSessionDump2(w) ==
    /\ pc[w] = "upd_dump2"
    /\ files' = Flushed(w, req[w].session_id, 2)
    /\ fd' = [fd EXCEPT ![w] = FALSE]
    /\ pc' = [pc EXCEPT ![w] = "idle"]
    /\ ret' = [ret EXCEPT ![w] = Returned("update_session", "close", "True")]
    /\ resp' = [resp EXCEPT ![w] = Ok(result[w][1])]
    /\ UNCHANGED <<req, svc, result, issued, nreq, created, life, quiet, wh, tmp, runpp>>

\* delete_session: `if session_path.exists()`, else return False
DeleteSessionExists(w) ==
    /\ pc[w] = "del_exists"
    /\ IF files[req[w].session_id].exists
       THEN /\ pc' = [pc EXCEPT ![w] = "del_unlink"]
            /\ UNCHANGED <<resp, ret>>
       ELSE /\ pc' = [pc EXCEPT ![w] = "idle"]
            /\ ret' = [ret EXCEPT ![w] = Returned("delete_session", "exists", "False")]
            /\ resp' = [resp EXCEPT ![w] = HTTPException(404, "Session not found")]
    /\ UNCHANGED <<files, req, svc, result, fd, issued, nreq, created, life, quiet, wh, tmp, runpp>>

\* (mutant) True is returned although the file stays
UnlinkKeepsFile(file) ==
    IF file.exists THEN [file |-> file, returns |-> TRUE]
    ELSE [file |-> file, returns |-> FALSE]

\* session_path.unlink() and its except branch: True if the file was
\* removed, False if unlink raised
Unlink(file) ==
    IF file.exists THEN [file |-> NoFile, returns |-> TRUE]
    ELSE [file |-> file, returns |-> FALSE]

\* delete_session: the unlink, and the endpoint's answer
DeleteSessionUnlink(w) ==
    /\ pc[w] = "del_unlink"
    /\ LET id == req[w].session_id
           u == Unlink(files[id])
       IN /\ files' = [files EXCEPT ![id] = u.file]
          /\ ret' = [ret EXCEPT ![w] =
                       Returned("delete_session", "unlink",
                                IF u.returns THEN "True" ELSE "False")]
          /\ resp' = [resp EXCEPT ![w] =
                        IF u.returns THEN Ok("Session deleted successfully")
                        ELSE HTTPException(404, "Session not found")]
          /\ IF files[id].exists
             THEN /\ fd' = [v \in Workers |-> IF v \in Writers(id) THEN FALSE ELSE fd[v]]
                  /\ wh' = [v \in Workers |->
                              IF v \in Writers(id) THEN [wh[v] EXCEPT !.solo = FALSE] ELSE wh[v]]
                  /\ life' = [life EXCEPT ![id] = "deleted"]
                  /\ quiet' = IF \E v \in Workers : pc[v] = "upd_open" /\ req[v].session_id = id
                              THEN quiet \ {id} ELSE quiet \cup {id}
             ELSE UNCHANGED <<fd, wh, life, quiet>>
    /\ pc' = [pc EXCEPT ![w] = "idle"]
    /\ UNCHANGED <<req, svc, result, issued, nreq, created, tmp, runpp>>

Next ==
    \E w \in Workers :
        \/ UploadNetwork(w)
        \/ Receive(w)
        \/ GetSessionExists(w)
        \/ GetSessionOpen(w)
        \/ Solve(w)
        \/ UpdateSessionExists(w)
        \/ UpdateSessionOpen(w)
        \/ UpdateSessionDump1(w)
        \/ UpdateSessionDump2(w)
        \/ DeleteSessionExists(w)
        \/ DeleteSessionUnlink(w)

Spec == Init /\ [][Next]_vars

\* The session directory outlives the server processes.  Records a process
\* finds there when it starts: written by this version, written by a version
\* whose records had other keys, cut short by a writer that died, or damaged.
LeftoverRecords ==
    LET head == PickleDump(SessionData(PowerFlowService(NetA, "a.json", "json")))[1]
        tail == PickleDump(SessionData(PowerFlowService(NetA, "a.json", "json")))[2]
        Whole(d) == <<[nul |-> FALSE, last |-> TRUE, d |-> d]>>
    IN {<<head, tail>>,
        Whole([network |-> NetA, filename |-> "a.json", file_format |-> "json"]),
        Whole([filename |-> "a.json", file_format |-> "json", results |-> None]),
        Whole([network |-> NetA, file_format |-> "json", results |-> None]),
        Whole([network |-> NetA, filename |-> "a.json", results |-> None]),
        <<head>>,
        <<NulChunk, tail>>}

\* the state of a server started on a directory that holds one such record,
\* whose identifier a client still has; the upload that left it is counted
\* among the requests
InitDisk ==
    /\ \E data \in LeftoverRecords :
         files = [i \in FileIds |-> IF i = 1 THEN [exists |-> TRUE, data |-> data] ELSE NoFile]
    /\ pc = [w \in Workers |-> "idle"]
    /\ req = [w \in Workers |-> NoRequest]
    /\ svc = [w \in Workers |-> None]
    /\ result = [w \in Workers |-> None]
    /\ fd = [w \in Workers |-> FALSE]
    /\ resp = [w \in Workers |-> NoResponse]
    /\ issued = {1}
    /\ nreq = 1
    /\ created = [i \in Ids |-> None]
    /\ life = [i \in Ids |-> IF i = 1 THEN "updated" ELSE "unused"]
    /\ quiet = {}
    /\ wh = [w \in Workers |-> NoWh]
    /\ ret = [w \in Workers |-> NoRet]
    /\ tmp = [w \in Workers |-> "none"]
    /\ runpp = [w \in Workers |-> None]

\* the requests that name a session; uploads make other sessions (Spec)
NextDisk ==
    \E w \in Workers :
        \/ Receive(w)
        \/ GetSessionExists(w)
        \/ GetSessionOpen(w)
        \/ Solve(w)
        \/ UpdateSessionExists(w)
        \/ UpdateSessionOpen(w)
        \/ UpdateSessionDump1(w)
        \/ UpdateSessionDump2(w)
        \/ DeleteSessionExists(w)
        \/ DeleteSessionUnlink(w)

SpecDisk == InitDisk /\ [][NextDisk]_vars

\* ------------------------------------------------------- uploads of any file
\* POST /upload with any of the files
UploadAnyFile(w) == Upload(w, Uploads)

NextLoad == \E w \in Workers : UploadAnyFile(w)

SpecLoad == Init /\ [][NextLoad]_vars

\* -------------------------------------------------- detect_format alone
Filenames == SeqsUpTo(NameTokens, MaxTokens)

\* the caller holds a filename
InitDetect ==
    /\ files = [i \in FileIds |-> NoFile]
    /\ pc = [w \in Workers |-> "idle"]
    /\ \E filename \in Filenames :
         req = [w \in Workers |->
                  IF w = 1 THEN [kind |-> "detect", session_id |-> NoSuchId,
                                 body |-> Some(filename)]
                  ELSE NoRequest]
    /\ svc = [w \in Workers |-> None]
    /\ result = [w \in Workers |-> None]
    /\ fd = [w \in Workers |-> FALSE]
    /\ resp = [w \in Workers |-> NoResponse]
    /\ issued = {}
    /\ nreq = 0
    /\ created = [i \in Ids |-> None]
    /\ life = [i \in Ids |-> "unused"]
    /\ quiet = {}
    /\ wh = [w \in Workers |-> NoWh]
    /\ ret = [w \in Workers |-> NoRet]
    /\ tmp = [w \in Workers |-> "none"]
    /\ runpp = [w \in Workers |-> None]

\* PowerFlowService.detect_format(filename)
DetectFormatCall(w) ==
    /\ pc[w] = "idle"
    /\ req[w].kind = "detect"
    /\ LET file_format == DetectFormatOfFilename(req[w].body[1])
       IN ret' = [ret EXCEPT ![w] =
                    Returned("detect_format", "return",
                             IF file_format = None THEN "None" ELSE file_format[1])]
    /\ pc' = [pc EXCEPT ![w] = "detected"]
    /\ UNCHANGED <<files, req, svc, result, fd, resp, issued, nreq, created, life, quiet, wh,
                   tmp, runpp>>

NextDetect == \E w \in Workers : DetectFormatCall(w)

SpecDetect == InitDetect /\ [][NextDetect]_vars

\* ------------------------------------------- one service object, no store
\* the worker that holds the service object
Holder == 1

\* a service load_network has returned
InitRun ==
    /\ files = [i \in FileIds |-> NoFile]
    /\ pc = [w \in Workers |-> IF w = Holder THEN "loaded" ELSE "idle"]
    /\ req = [w \in Workers |-> NoRequest]
    /\ \E network \in RunNetworks :
         svc = [w \in Workers |->
                  IF w = Holder THEN Some(PowerFlowService(network, "a.json", "json")) ELSE None]
    /\ result = [w \in Workers |-> None]
    /\ fd = [w \in Workers |-> FALSE]
    /\ resp = [w \in Workers |-> NoResponse]
    /\ issued = {}
    /\ nreq = 0
    /\ created = [i \in Ids |-> None]
    /\ life = [i \in Ids |-> "unused"]
    /\ quiet = {}
    /\ wh = [w \in Workers |-> NoWh]
    /\ ret = [w \in Workers |-> NoRet]
    /\ tmp = [w \in Workers |-> "unlinked"]
    /\ runpp = [w \in Workers |-> None]

\* service.run_powerflow(...)
RunPowerflowCall(w) ==
    /\ pc[w] = "loaded"
    /\ \E case \in RunCases(svc[w][1].network) :
         LET ran == RunPowerflow(svc[w][1], case.request, case.out)
         IN /\ req' = [req EXCEPT ![w] =
                         [kind |-> "run", session_id |-> NoSuchId, body |-> Some(case.request)]]
            /\ runpp' = [runpp EXCEPT ![w] = Some(case.out)]
            /\ svc' = [svc EXCEPT ![w] = Some(ran.service)]
            /\ result' = [result EXCEPT ![w] = ran.result]
    /\ pc' = [pc EXCEPT ![w] = "ran"]
    /\ UNCHANGED <<files, fd, resp, issued, nreq, created, life, quiet, wh, ret, tmp>>

\* what get_results does with the service
GetResultsCall(w) ==
    /\ pc[w] \in {"loaded", "ran"}
    /\ resp' = [resp EXCEPT ![w] = ResultsResponse(svc[w][1])]
    /\ pc' = [pc EXCEPT ![w] = "got_results"]
    /\ UNCHANGED <<files, req, svc, result, fd, issued, nreq, created, life, quiet, wh, ret,
                   tmp, runpp>>

\* what download_results does with the service: export_results_to_excel
ExportCall(w) ==
    /\ pc[w] \in {"loaded", "ran"}
    /\ resp' = [resp EXCEPT ![w] = DownloadResponse(svc[w][1])]
    /\ svc' = [svc EXCEPT ![w] = Some(ExportResultsToExcel(svc[w][1]).service)]
    /\ pc' = [pc EXCEPT ![w] = "exported"]
    /\ UNCHANGED <<files, req, result, fd, issued, nreq, created, life, quiet, wh, ret,
                   tmp, runpp>>

NextRun ==
    \E w \in Workers :
        \/ RunPowerflowCall(w)
        \/ GetResultsCall(w)
        \/ ExportCall(w)

SpecRun == InitRun /\ [][NextRun]_vars

\* The clients that upload, read and delete but start no run: the requests
\* among which delete_session races with itself alone.
ReceiveOtherThanRun(w) == Receive(w) /\ req'[w].kind # "run"

NextDelete ==
    \E w \in Workers :
        \/ UploadNetwork(w)
        \/ ReceiveOtherThanRun(w)
        \/ GetSessionExists(w)
        \/ GetSessionOpen(w)
        \/ DeleteSessionExists(w)
        \/ DeleteSessionUnlink(w)

SpecDelete == Init /\ [][NextDelete]_vars

\* ------------------------------------------------------------- the claims
\* worker w finishes the statement it is at
Steps(w) == pc'[w] # pc[w]

\* C1: a get_session that reads a session file while exactly one
\* update_session of another worker is rewriting it obtains the record as
\* it was before that update or as it is after it
C1_ReaderSeesPreOrPost ==
    [][\A r \in Workers : \A w \in Workers \ {r} :
         (/\ pc[r] = "get_open" /\ Steps(r)
          /\ req[w].session_id = req[r].session_id
          /\ pc[w] \in {"upd_dump1", "upd_dump2"}
          /\ fd[w] /\ wh[w].solo /\ wh[w].pre # None)
         => svc'[r] \in {wh[w].pre, svc[w]}]_vars

\* C2: a get_session of a session that has been neither updated nor deleted
\* since create_session returns the service that create_session stored:
\* the same network, filename and file_format, and no results
C2_CreatedSessionReadsBack ==
    [][\A r \in Workers :
         (/\ pc[r] = "get_open" /\ Steps(r)
          /\ req[r].session_id \in Ids
          /\ life[req[r].session_id] = "fresh")
         => /\ svc'[r] # None
            /\ svc'[r][1].network = created[req[r].session_id][1].network
            /\ svc'[r][1].filename = created[req[r].session_id][1].filename
            /\ svc'[r][1].file_format = created[req[r].session_id][1].file_format
            /\ svc'[r][1]._results = None]_vars

C2_Witness ==
    \E r \in Workers :
        /\ pc[r] = "idle" /\ req[r].kind = "download"
        /\ ret[r].fn = "get_session" /\ ret[r].returns = "service"
        /\ life[req[r].session_id] = "fresh"
        /\ svc[r][1].filename = "B.XLSX" /\ svc[r][1].file_format = "excel"
        /\ svc[r][1].network = NetB

\* C3: the result a run returns is computed from the solver's outcome
\* alone and is the service's cached result, with every table and summary
\* value null when it is not converged; when update_session has written it
\* with no other writer on the file, the stored record holds exactly that
\* result and the endpoint answers with it
C3_RunReplacesCachedResult ==
    [][\A w \in Workers :
         /\ (pc[w] = "solve" /\ Steps(w))
            => /\ svc'[w][1]._results = result'[w]
               /\ \E out \in SolverOutcomes :
                    result'[w] =
                      RunPowerflow(PowerFlowService(svc[w][1].network, svc[w][1].filename,
                                                    svc[w][1].file_format),
                                   req[w].body[1], out).result
               /\ ~result'[w][1].converged
                  => /\ result'[w][1].tables = NullTables
                     /\ result'[w][1].max_loading_percent = None
                     /\ result'[w][1].min_vm_pu = None
                     /\ result'[w][1].max_vm_pu = None
         /\ (pc[w] = "upd_dump2" /\ Steps(w) /\ fd[w] /\ wh[w].solo)
            => /\ TryLoadSession(files'[req[w].session_id]).service = svc[w]
               /\ svc[w][1]._results = result[w]
               /\ resp'[w] = Ok(result[w][1])]_vars

\* a failed run has been stored over a converged one
C3_Witness ==
    \E w \in Workers :
        /\ pc[w] = "idle" /\ req[w].kind = "run"
        /\ ret[w].fn = "update_session" /\ ret[w].returns = "True"
        /\ wh[w].solo
        /\ wh[w].pre # None /\ wh[w].pre[1]._results # None
        /\ wh[w].pre[1]._results[1].converged
        /\ wh[w].pre[1]._results[1].tables["res_bus"] # None
        /\ ~result[w][1].converged
        /\ TryLoadSession(files[req[w].session_id]).service = svc[w]
        /\ svc[w][1]._results[1].tables = NullTables

\* C4: update_session on an identifier that has no record returns False and
\* changes no file: no record is created and every other record stays
C4_UpdateOfMissingHasNoEffect ==
    [][\A w \in Workers :
         (pc[w] = "upd_exists" /\ Steps(w) /\ ~files[req[w].session_id].exists)
         => /\ files' = files
            /\ pc'[w] = "idle"
            /\ ret'[w].fn = "update_session" /\ ret'[w].returns = "False"]_vars

C4_Witness ==
    \E w \in Workers :
        /\ pc[w] = "idle" /\ req[w].kind = "run"
        /\ ret[w].fn = "update_session" /\ ret[w].returns = "False"
        /\ ~files[req[w].session_id].exists
        /\ resp[w].status_code = 200

C6_GetSessionNeverRaises ==
    [][\A w \in Workers :
         /\ ret'[w].returns # "raised"
         /\ req'[w].kind \in {"run", "results", "download"} => resp'[w].status_code # 500
         /\ (pc[w] \in {"get_exists", "get_open"} /\ Steps(w)
             /\ ~files[req[w].session_id].exists)
            => /\ svc'[w] = None
               /\ ret'[w].fn = "get_session" /\ ret'[w].returns = "None"
               /\ resp'[w] = HTTPException(404, "Session not found")]_vars

\* the file was deleted between the existence check and the open
C6_Witness ==
    \E w \in Workers :
        /\ pc[w] = "idle"
        /\ ret[w].fn = "get_session" /\ ret[w].at = "open"
        /\ ret[w].caught = "FileNotFoundError"
        /\ svc[w] = None

\* the bytes are the pickle of a dict that has the keys get_session indexes
Deserializable(data) ==
    /\ PickleLoad(data).exc = ""
    /\ {"network", "filename", "file_format"} \subseteq DOMAIN PickleLoad(data).obj

\* C7: get_session of a record that is there but cannot be deserialized
\* (cut short, damaged, or without one of the network / filename /
\* file_format keys) returns None without raising and leaves the file as
\* it is
C7_CorruptRecordReadsAsAbsent ==
    [][\A w \in Workers :
         (/\ pc[w] = "get_open" /\ Steps(w)
          /\ files[req[w].session_id].exists
          /\ ~Deserializable(files[req[w].session_id].data))
         => /\ svc'[w] = None
            /\ ret'[w].fn = "get_session" /\ ret'[w].returns = "None"
            /\ resp'[w] = HTTPException(404, "Session not found")
            /\ files' = files]_vars

\* a record without one of the keys has been read and is still in place
C7_Witness ==
    \E w \in Workers :
        /\ pc[w] = "idle"
        /\ ret[w].fn = "get_session" /\ ret[w].caught = "KeyError"
        /\ svc[w] = None /\ resp[w].status_code = 404
        /\ files[req[w].session_id].exists
        /\ ~Deserializable(files[req[w].session_id].data)

\* C8: every stored session holds a network, and holds no results from its
\* creation until an update_session writes to it; the results and download
\* endpoints, failed exports included, write nothing
C8_SessionLifecycle ==
    [][/\ \A i \in Ids :
            (files[i].exists /\ TryLoadSession(files[i]).exc = "")
            => /\ IsPandapowerNet(TryLoadSession(files[i]).service[1].network)
               /\ life[i] = "fresh" => TryLoadSession(files[i]).service[1]._results = None
       /\ \A w \in Workers :
            (req[w].kind \in {"results", "download"} /\ pc[w] # "idle" /\ Steps(w))
            => files' = files]_vars

\* a results fetch and a failed export have both been answered on a session
\* that no run has touched
C8_Witness ==
    \E w \in Workers : \E v \in Workers \ {w} :
        /\ pc[w] = "idle" /\ req[w].kind = "results"
        /\ resp[w].detail = "No results available. Run power flow first."
        /\ pc[v] = "idle" /\ req[v].kind = "download"
        /\ resp[v].detail = "No converged results available to export"
        /\ req[v].session_id = req[w].session_id
        /\ life[req[w].session_id] = "fresh"
        /\ TryLoadSession(files[req[w].session_id]).service[1]._results = None

\* C9: when the solver raises, run_powerflow returns to its caller a result
\* with converged false, the failure message carrying the exception's
\* message, and a log whose warnings are that message alone; the result is
\* the service's cached result
C9_SolverExceptionBecomesResult ==
    [][\A w \in Workers :
         (pc[w] = "solve" /\ Steps(w))
         => /\ pc'[w] = "upd_exists"
            /\ resp'[w].status_code # 500
            /\ \A out \in SolverOutcomes :
                 (out.raises /\ svc'[w][1].network = Solved(svc[w][1].network, out))
                 => /\ result'[w] # None
                    /\ ~result'[w][1].converged
                    /\ result'[w][1].message = "Power flow calculation failed: " \o out.error
                    /\ result'[w][1].calculation_log[1].warnings = <<out.error>>
                    /\ svc'[w][1]._results = result'[w]]_vars

C9_Witness ==
    \E w \in Workers :
        /\ pc[w] = "upd_exists"
        /\ result[w] # None
        /\ result[w][1].message =
             "Power flow calculation failed: Power Flow nr did not converge after 10 iterations!"
        /\ svc[w][1]._results = result[w]

\* a result that is not converged has no table, no summary value and a
\* log with at least one warning
FailedShape(r) ==
    ~r.converged
    => /\ r.tables = NullTables
       /\ r.max_loading_percent = None
       /\ r.min_vm_pu = None
       /\ r.max_vm_pu = None
       /\ r.calculation_log # None
       /\ r.calculation_log[1].warnings # <<>>

\* C10: every result run_powerflow has produced with converged false, on
\* the did-not-converge path and on the solver-raised path, has all nine
\* tables and the three summary values null and a non-empty warnings list
C10_FailedResultShape ==
    \A w \in Workers :
        /\ result[w] # None => FailedShape(result[w][1])
        /\ (svc[w] # None /\ svc[w][1]._results # None) => FailedShape(svc[w][1]._results[1])

\* the solver returned without converging and without a warning
C10_Witness ==
    \E w \in Workers :
        /\ result[w] # None
        /\ ~result[w][1].converged
        /\ result[w][1].message = "Power flow did not converge"
        /\ result[w][1].calculation_log[1].warnings = <<"Power flow did not converge">>
        /\ result[w][1].tables = NullTables

\* C11: when pp.runpp returns without raising and the network's flag is
\* false, run_powerflow returns converged = False with the message 'Power
\* flow did not converge' and no table, and the log's warnings are the
\* emitted warnings in order followed by the notice; when the flag is true
\* the warnings are exactly the emitted ones
C11_WarningsInOrderOfEmission ==
    \A w \in Workers :
        (runpp[w] # None /\ result[w] # None /\ ~runpp[w][1].raises)
        => LET out == runpp[w][1]
               r == result[w][1]
           IN /\ svc[w][1].network.converged = out.converged
              /\ r.converged = out.converged
              /\ ~out.converged
                 => /\ r.message = "Power flow did not converge"
                    /\ r.tables = NullTables
                    /\ r.calculation_log[1].warnings
                         = out.warnings \o <<"Power flow did not converge">>
              /\ out.converged => r.calculation_log[1].warnings = out.warnings

\* a run that did not converge after the solver emitted two different
\* warnings: the log has them and the notice
C11_Witness ==
    \E w \in Workers :
        /\ runpp[w] # None /\ result[w] # None
        /\ ~runpp[w][1].raises /\ ~runpp[w][1].converged
        /\ runpp[w][1].warnings = <<"matrix is singular", "numba cannot be imported">>
        /\ Len(result[w][1].calculation_log[1].warnings) = 3

\* the cap the documentation gives for a request
DocumentedCap(request) ==
    IF request.max_iteration # None THEN request.max_iteration[1]
    ELSE CASE request.algorithm \in {"nr", "iwamoto_nr"} -> 10
           [] request.algorithm = "bfsw" -> 100
           [] request.algorithm = "gs" -> 1000
           [] request.algorithm \in {"fdbx", "fdxb"} -> 30
           [] OTHER -> 30

\* C12: an explicit max_iteration (0 included) is used verbatim, otherwise
\* the cap is 10 for nr and iwamoto_nr, 100 for bfsw, 1000 for gs, 30 for
\* fdbx, fdxb and any other algorithm; that value is the cap the solver ran
\* with and the log's max_iteration whether the run converged, did not
\* converge or raised
C12_IterationCapResolved ==
    \A w \in Workers :
        (result[w] # None /\ runpp[w] # None /\ req[w].body # None)
        => LET request == req[w].body[1]
               out == runpp[w][1]
               log == result[w][1].calculation_log[1]
           IN /\ log.max_iteration = DocumentedCap(request)
              /\ log.algorithm = request.algorithm
              /\ (~out.raises /\ ~out.converged)
                 => /\ out.iterations = Some(DocumentedCap(request))
                    /\ log.iterations = Some(DocumentedCap(request))

\* a run with the explicit cap 0 that the solver ended without converging
C12_Witness ==
    \E w \in Workers :
        /\ result[w] # None /\ runpp[w] # None /\ req[w].body # None
        /\ req[w].body[1].algorithm = "gs"
        /\ req[w].body[1].max_iteration = Some(0)
        /\ ~runpp[w][1].raises /\ ~runpp[w][1].converged
        /\ result[w][1].calculation_log[1].max_iteration = 0

\* the result rows of the slack elements of a solved network: every
\* external-grid row, and the generator rows whose generator is flagged
SlackRows(network) ==
    network.res["res_ext_grid"].rows
    \o SelectSeq(network.res["res_gen"].rows,
                 LAMBDA r : /\ network.gen.has_slack_column
                            /\ \E i \in 1..Len(network.gen.rows) :
                                 /\ network.gen.rows[i].idx = r.idx
                                 /\ network.gen.rows[i].slack)

\* C13: in every calculation log slack_p_mw and slack_q_mvar are both
\* present or both absent; absent when the run did not converge or failed,
\* absent after a converged run on a network with no external-grid row and
\* no row of a slack generator, and present otherwise, a sum of zero included
C13_SlackFieldsTogether ==
    \A w \in Workers :
        (result[w] # None /\ result[w][1].calculation_log # None)
        => LET r == result[w][1]
               log == r.calculation_log[1]
               rows == SlackRows(svc[w][1].network)
           IN /\ (log.slack_p_mw = None) <=> (log.slack_q_mvar = None)
              /\ ~r.converged => log.slack_p_mw = None
              /\ (r.converged /\ rows = <<>>) => log.slack_p_mw = None
              /\ (r.converged /\ rows # <<>>) => log.slack_p_mw # None

\* a converged run whose two slack elements' powers cancel: the fields are 0
C13_Witness ==
    \E w \in Workers :
        /\ result[w] # None /\ result[w][1].converged
        /\ Len(SlackRows(svc[w][1].network)) = 2
        /\ SlackRows(svc[w][1].network)[1].vals.p_mw = 3
        /\ result[w][1].calculation_log[1].slack_p_mw = Some(0)
        /\ result[w][1].calculation_log[1].slack_q_mvar = Some(0)

\* the total of one column over result rows
RECURSIVE Total(_, _)
Total(rows, col) == IF rows = <<>> THEN 0 ELSE Head(rows).vals[col] + Total(Tail(rows), col)

\* C14: after a converged run slack_p_mw (slack_q_mvar) is the sum of the
\* active (reactive) power over every external-grid row and every row of a
\* generator flagged slack; rows of other generators do not contribute
C14_SlackPowerIsTheSum ==
    \A w \in Workers :
        (result[w] # None /\ result[w][1].converged)
        => LET log == result[w][1].calculation_log[1]
               rows == SlackRows(svc[w][1].network)
           IN rows # <<>>
              => /\ log.slack_p_mw = Some(Total(rows, "p_mw"))
                 /\ log.slack_q_mvar = Some(Total(rows, "q_mvar"))

\* a converged run on a network with an external grid, a slack generator and
\* another generator whose power is not zero
C14_Witness ==
    \E w \in Workers :
        /\ result[w] # None /\ result[w][1].converged
        /\ LET network == svc[w][1].network
           IN /\ Len(network.res["res_ext_grid"].rows) = 1
              /\ Len(network.res["res_gen"].rows) = 2
              /\ Len(SlackRows(network)) = 2
              /\ Total(network.res["res_gen"].rows, "p_mw") = 0
              /\ Total(network.res["res_ext_grid"].rows, "p_mw") = 3
        /\ result[w][1].calculation_log[1].slack_p_mw = Some(6)
        /\ result[w][1].calculation_log[1].slack_q_mvar = Some(-2)

\* C15: GET /results and the download both report that no results are
\* available (an error answer, 404) when no run was made on the session and
\* when the last run failed or did not converge
C15_NoResultsBeforeOrAfterFailedRun ==
    \A w \in Workers :
        (/\ pc[w] = "idle"
         /\ req[w].kind \in {"results", "download"}
         /\ svc[w] # None
         /\ (svc[w][1]._results = None \/ ~svc[w][1]._results[1].converged))
        => /\ resp[w].status_code = 404
           /\ resp[w].body = None

\* C16: export_results_to_excel raises the no-results error whenever the
\* cached result is absent or has converged = False, gives no workbook then,
\* and leaves the service's cached result and the session file as they were
C16_ExportRefusesWithoutConvergedResult ==
    [][\A w \in Workers :
         LET loaded == TryLoadSession(files[req[w].session_id])
         IN (/\ pc[w] = "get_open" /\ Steps(w)
             /\ req[w].kind = "download"
             /\ loaded.exc = ""
             /\ (\/ loaded.service[1]._results = None
                 \/ ~loaded.service[1]._results[1].converged))
            => /\ ExportResultsToExcel(loaded.service[1]).error
                    = Some("No converged results available to export")
               /\ ExportResultsToExcel(loaded.service[1]).sheets = <<>>
               /\ resp'[w] = HTTPException(404, "No converged results available to export")
               /\ svc'[w] = loaded.service
               /\ files' = files]_vars

\* a download was refused on a session whose last run did not converge
C16_Witness ==
    \E w \in Workers :
        /\ pc[w] = "idle" /\ req[w].kind = "download"
        /\ svc[w] # None
        /\ svc[w][1]._results # None
        /\ ~svc[w][1]._results[1].converged
        /\ resp[w].status_code = 404
        /\ files[req[w].session_id].exists
        /\ TryLoadSession(files[req[w].session_id]).service = svc[w]

\* the sheets of a workbook that have the given name
SheetsNamed(sheets, name) == {i \in 1..Len(sheets) : sheets[i].sheet_name = name}

\* C17: the workbook exported from a converged result set has exactly one
\* sheet, named after the category, for each of the nine tables that is not
\* null and has rows, none for a null table, and exactly one sheet 'Summary'
\* with the rows Converged, Max Loading, Min Voltage, Max Voltage in order
C17_OneSheetPerTablePlusSummary ==
    \A w \in Workers :
        (/\ pc[w] = "exported"
         /\ svc[w][1]._results # None
         /\ svc[w][1]._results[1].converged)
        => LET r == svc[w][1]._results[1]
               sheets == resp[w].body[1]
           IN /\ resp[w].status_code = 200
              /\ \A t \in TableSet :
                   IF r.tables[t] # None /\ r.tables[t][1].row_count > 0
                   THEN /\ Cardinality(SheetsNamed(sheets, t)) = 1
                        /\ \A i \in SheetsNamed(sheets, t) : sheets[i].rows = r.tables[t][1].data
                   ELSE SheetsNamed(sheets, t) = {}
              /\ Cardinality(SheetsNamed(sheets, "Summary")) = 1
              /\ \A i \in 1..Len(sheets) : sheets[i].sheet_name \in TableSet \cup {"Summary"}
              /\ \A i \in SheetsNamed(sheets, "Summary") :
                   [k \in 1..Len(sheets[i].rows) |-> sheets[i].rows[k].Metric]
                     = <<"Converged", "Max Loading (%)", "Min Voltage (p.u.)",
                         "Max Voltage (p.u.)">>

\* a workbook with sheets for the three-winding transformers and the shunts
\* and none for the lines, whose table is null
C17_Witness ==
    \E w \in Workers :
        /\ pc[w] = "exported"
        /\ resp[w].status_code = 200
        /\ svc[w][1]._results[1].tables["res_line"] = None
        /\ SheetsNamed(resp[w].body[1], "res_line") = {}
        /\ SheetsNamed(resp[w].body[1], "res_trafo3w") # {}
        /\ SheetsNamed(resp[w].body[1], "res_shunt") # {}
        /\ SheetsNamed(resp[w].body[1], "res_load") = {}

\* what the Summary sheet shows for a metric
Shown(sheets, metric) ==
    LET summary == sheets[CHOOSE i \in 1..Len(sheets) : sheets[i].sheet_name = "Summary"]
    IN summary.rows[CHOOSE k \in 1..Len(summary.rows) : summary.rows[k].Metric = metric].Value

\* C18: in the Summary sheet each of max loading, min voltage and max voltage
\* shows 'N/A' when the field of the result set is absent and the field's own
\* number whenever it is present, 0 included
C18_SummaryShowsPresentValues ==
    \A w \in Workers :
        (pc[w] = "exported" /\ resp[w].status_code = 200)
        => LET r == svc[w][1]._results[1]
               sheets == resp[w].body[1]
               Right(field, metric) ==
                   Shown(sheets, metric) = IF field = None THEN [text |-> "N/A"]
                                           ELSE [number |-> field[1]]
           IN /\ Right(r.max_loading_percent, "Max Loading (%)")
              /\ Right(r.min_vm_pu, "Min Voltage (p.u.)")
              /\ Right(r.max_vm_pu, "Max Voltage (p.u.)")

\* the messages that carry an underlying message: it alone, or after the
\* prefix load_network puts before it
Carrying(message) == {message, "Failed to load network: " \o message}

\* C19: load_network returns a network with at least one bus or fails with
\* ValueError: an unrecognized extension with a message that lists the
\* supported ones, a network without buses whatever the format, and every
\* exception of writing or deserializing the file re-reported as ValueError
\* with the underlying message, never under the library's or the system's
\* exception class; a failed upload creates no session
C19_LoadFailsWithValueError ==
    [][/\ \A w \in Workers :
            req'[w].kind = "upload"
            => LET upload == req'[w].body[1]
                   known == DetectFormat(upload.ext) # None
               IN /\ resp'[w].status_code = 200 => resp'[w].body[1].n_bus >= 1
                  /\ resp'[w].status_code # 200
                     => /\ ret'[w] = Returned("load_network", "raise", "ValueError")
                        /\ resp'[w].status_code = 400
                  /\ ~known
                     => resp'[w].detail = "Unsupported file format. Supported formats: .json, .xlsx, .xls, .p, .pkl, .pickle, .sqlite, .db"
                  /\ (known /\ upload.write_error # None)
                     => resp'[w].detail \in Carrying(upload.write_error[1].message)
                  /\ (known /\ upload.write_error = None /\ upload.parse_error # None)
                     => resp'[w].detail \in Carrying(upload.parse_error[1].message)
                  /\ (/\ known /\ upload.write_error = None /\ upload.parse_error = None
                      /\ IsPandapowerNet(upload.parsed) /\ upload.parsed.n_bus = 0)
                     => resp'[w].detail = "Network must contain at least one bus"
       /\ (files' # files \/ issued' # issued)
          => \E w \in Workers :
               /\ resp'[w].status_code = 200
               /\ resp'[w].body[1].session_id \in issued' \ issued
               /\ files'[resp'[w].body[1].session_id].exists]_vars

\* C20: a scratch file load_network created does not exist any more when
\* load_network has returned or raised, on every path: a successful load, a
\* deserializer exception, an object that is no network, a network without
\* buses, and a failure of writing the uploaded bytes
C20_ScratchFileRemoved ==
    \A w \in Workers :
        req[w].kind = "upload"
        => /\ tmp[w] # "exists"
           /\ DetectFormat(req[w].body[1].ext) # None => tmp[w] = "unlinked"

\* the format the documentation gives for an extension word
DocumentedFormat(word) ==
    CASE word \in {"json", "JSON"} -> "json"
      [] word \in {"xlsx", "Xlsx", "xls"} -> "excel"
      [] word \in {"p", "pkl", "PKL", "pickle"} -> "pickle"
      [] word \in {"sqlite", "db", "Db"} -> "sqlite"
      [] OTHER -> "None"

\* C21: detect_format returns json for .json, excel for .xlsx and .xls,
\* pickle for .p, .pkl and .pickle, sqlite for .sqlite and .db, matching the
\* final extension in any case; for every other filename (unknown extension,
\* no extension, the empty string) it returns None; it never raises, and no
\* extension belongs to two formats
C21_DetectFormatTotal ==
    /\ \A f, g \in DOMAIN FILE_FORMATS : f # g => FILE_FORMATS[f] \cap FILE_FORMATS[g] = {}
    /\ \A w \in Workers :
         (req[w].kind = "detect" /\ pc[w] = "detected")
         => LET filename == req[w].body[1]
                n == Len(filename)
            IN /\ ret[w].fn = "detect_format" /\ ret[w].at = "return"
               /\ ret[w].returns =
                    IF n >= 3 /\ filename[n - 1] = "." /\ filename[n] # "."
                    THEN DocumentedFormat(filename[n])
                    ELSE "None"

\* a name whose extension is spelled in capitals
C21_Witness ==
    \E w \in Workers :
        /\ req[w].kind = "detect" /\ pc[w] = "detected"
        /\ req[w].body[1] = <<"a", ".", "PKL">>
        /\ ret[w].returns = "pickle"

\* C22: for each of the nine categories the extracted TableData is null
\* when the network's result table is absent or has no rows; otherwise
\* row_count is the number of its rows and at least 1, its column names are
\* pairwise distinct, and every row has exactly the keys listed in columns
C22_TableDataWellFormed ==
    \A w \in Workers :
        (result[w] # None /\ result[w][1].converged)
        => \A t \in TableSet :
             LET df == svc[w][1].network.res[t]
                 td == result[w][1].tables[t]
             IN IF ~df.present \/ Len(df.rows) = 0
                THEN td = None
                ELSE /\ td # None
                     /\ td[1].row_count = Len(td[1].data)
                     /\ td[1].row_count = Len(df.rows)
                     /\ td[1].row_count >= 1
                     /\ \A i, j \in 1..Len(td[1].columns) :
                          i # j => td[1].columns[i] # td[1].columns[j]
                     /\ \A i \in 1..Len(td[1].data) :
                          DOMAIN td[1].data[i]
                            = {td[1].columns[k] : k \in 1..Len(td[1].columns)}

\* a converged result with a null table for an absent result table, a null
\* table for one without rows, and a table of two rows
C22_Witness ==
    \E w \in Workers :
        /\ result[w] # None /\ result[w][1].converged
        /\ ~svc[w][1].network.res["res_trafo3w"].present
        /\ result[w][1].tables["res_trafo3w"] = None
        /\ svc[w][1].network.res["res_load"].present
        /\ result[w][1].tables["res_load"] = None
        /\ result[w][1].tables["res_bus"] # None
        /\ result[w][1].tables["res_bus"][1].row_count = 2
        /\ Len(result[w][1].tables["res_bus"][1].columns) = 3

\* the remaining columns of a table, after idx and, where present, name
RestOfColumns(td, named) ==
    SubSeq(td.columns, IF named THEN 3 ELSE 2, Len(td.columns))

\* the layout of a non-null table: idx first with the row's index, name
\* second where the element table has a name column, then the result table's
\* columns in their order; NameOf(names, idx) is what the name column is to hold
TableLayout(w, NameOf(_, _)) ==
    \A t \in TableSet :
        LET network == svc[w][1].network
            df == network.res[t]
            td == result[w][1].tables[t]
            e == ElementType(t)
            named == e \in DOMAIN network.names /\ network.names[e].has_name_column
        IN td # None
           => /\ td[1].columns[1] = "idx"
              /\ \A i \in 1..Len(td[1].data) : td[1].data[i]["idx"] = Some(df.rows[i].idx)
              /\ named
                 => /\ td[1].columns[2] = "name"
                    /\ \A i \in 1..Len(td[1].data) :
                         td[1].data[i]["name"] = NameOf(network.names[e].name, df.rows[i].idx)
              /\ ~named => \A k \in 1..Len(td[1].columns) : td[1].columns[k] # "name"
              /\ RestOfColumns(td[1], named) = df.columns

\* the element's name as the element table holds it, or the sentinel
NameAsStored(names, idx) ==
    IF idx \notin DOMAIN names THEN "-"
    ELSE IF names[idx] = NaN \/ names[idx] \in {"", " "} THEN "-"
    ELSE names[idx]

\* the element's name without the whitespace around it, or the sentinel
NameTrimmed(names, idx) ==
    IF idx \notin DOMAIN names THEN "-"
    ELSE IF names[idx] = NaN \/ Strip(names[idx]) = "" THEN "-"
    ELSE Strip(names[idx])

\* C23 as stated: in every non-null table the first column is idx holding
\* the row's index; where the element table has a name column the second is
\* name, holding the name of the element with that index, or "-" when the
\* name is missing, blank or whitespace-only or the index has no row in the
\* element table; the remaining columns keep their order
C23_NameIsTheElementName ==
    \A w \in Workers :
        (result[w] # None /\ result[w][1].converged) => TableLayout(w, NameAsStored)

\* C23, amended: as above, with the name column holding the element's name
\* with leading and trailing whitespace removed
C23_NameIsTheTrimmedElementName ==
    \A w \in Workers :
        (result[w] # None /\ result[w][1].converged) => TableLayout(w, NameTrimmed)

\* generators named " G0 " and "": the first is shown as G0, the second as
\* the sentinel, as is an external grid the name table has no row for
C23_Witness ==
    \E w \in Workers :
        /\ result[w] # None /\ result[w][1].converged
        /\ result[w][1].tables["res_gen"] # None
        /\ result[w][1].tables["res_gen"][1].row_count = 2
        /\ result[w][1].tables["res_gen"][1].columns = <<"idx", "name", "p_mw", "q_mvar">>
        /\ result[w][1].tables["res_gen"][1].data[1]["name"] = "G0"
        /\ result[w][1].tables["res_gen"][1].data[2]["name"] = "-"
        /\ result[w][1].tables["res_ext_grid"] # None
        /\ result[w][1].tables["res_ext_grid"][1].data[1]["name"] = "-"
        /\ result[w][1].tables["res_bus"] # None
        /\ result[w][1].tables["res_bus"][1].data[1]["name"] = "Bus 0"

\* the values of the line and of the transformer loading columns together
Loadings(network) ==
    Column(network.res["res_line"], "loading_percent")
        \o Column(network.res["res_trafo"], "loading_percent")

\* C24: after a converged run max_loading_percent is the maximum of the
\* values of the line and the transformer loading columns taken together,
\* whatever the values (one table without rows, values zero or negative),
\* and is absent exactly when neither table has rows
C24_MaxLoadingIsTheMaximum ==
    \A w \in Workers :
        (result[w] # None /\ result[w][1].converged)
        => LET all == Loadings(svc[w][1].network)
               m == result[w][1].max_loading_percent
           IN /\ m = None <=> all = <<>>
              /\ m # None
                 => /\ \E i \in 1..Len(all) : all[i] = m[1]
                    /\ \A i \in 1..Len(all) : all[i] <= m[1]

\* the values of the bus voltage-magnitude column
Voltages(network) == Column(network.res["res_bus"], "vm_pu")

\* C25: after a converged run min_vm_pu and max_vm_pu are both present when
\* the bus result table has rows and both absent otherwise; when present
\* they are the smallest and the largest value of the voltage-magnitude
\* column, so min_vm_pu <= max_vm_pu
C25_VoltageBounds ==
    \A w \in Workers :
        (result[w] # None /\ result[w][1].converged)
        => LET vm == Voltages(svc[w][1].network)
               lo == result[w][1].min_vm_pu
               hi == result[w][1].max_vm_pu
           IN IF vm = <<>>
              THEN lo = None /\ hi = None
              ELSE /\ lo # None /\ hi # None
                   /\ \E i \in 1..Len(vm) : vm[i] = lo[1]
                   /\ \E i \in 1..Len(vm) : vm[i] = hi[1]
                   /\ \A i \in 1..Len(vm) : lo[1] <= vm[i] /\ vm[i] <= hi[1]
                   /\ lo[1] <= hi[1]

\* two buses at 1.02 and 0.98 per unit, in that order
C25_Witness ==
    \E w \in Workers :
        /\ result[w] # None /\ result[w][1].converged
        /\ Voltages(svc[w][1].network) = <<102, 98>>
        /\ result[w][1].min_vm_pu = Some(98)
        /\ result[w][1].max_vm_pu = Some(102)

\* C26: sessions with different identifiers are independent: whatever the
\* workers do in whatever order, a step changes the file of a session only
\* if it is a step of update_session or delete_session on that very
\* identifier, or of create_session making the record of an identifier
\* that had none; so no create, read, run or delete on one session changes
\* the existence or the stored record of another, and create_session never
\* overwrites a record
C26_SessionsIndependent ==
    [][\A b \in Ids :
         files'[b] # files[b]
         => \/ \E w \in Workers :
                 /\ req[w].session_id = b /\ Steps(w)
                 /\ pc[w] \in {"upd_open", "upd_dump1", "upd_dump2", "del_unlink"}
                 /\ \A c \in Ids \ {b} : files'[c] = files[c]
            \/ /\ ~files[b].exists /\ life[b] = "unused" /\ b \notin issued
               /\ b \in issued'
               /\ \A c \in Ids \ {b} : files'[c] = files[c]]_vars

\* one session has been run and stored while another, created before it,
\* still reads back as it was created
C26_Witness ==
    \E a \in Ids : \E b \in Ids \ {a} :
        /\ life[a] = "updated" /\ life[b] = "fresh" /\ b < a
        /\ TryLoadSession(files[a]).service # None
        /\ TryLoadSession(files[a]).service[1]._results # None
        /\ TryLoadSession(files[b]).service = created[b]
        /\ created[b] # None

\* worker w's run has stored its service: update_session returned True
Stored(w) ==
    /\ pc[w] = "idle" /\ req[w].kind = "run"
    /\ ret[w].fn = "update_session" /\ ret[w].returns = "True"

\* C27: last writer wins: when two workers have updated the same session,
\* overlapping or not, and both updates have completed with no delete and
\* no further writer on it, the stored record is readable and is exactly
\* the record one of the two wrote, network and results of the same run
C27_LastWriterWins ==
    \A w \in Workers : \A v \in Workers \ {w} :
        (/\ Stored(w) /\ Stored(v)
         /\ req[w].session_id = req[v].session_id
         /\ req[w].session_id \in Ids
         /\ life[req[w].session_id] = "updated"
         /\ \A u \in Workers \ {w, v} :
              ~(req[u].session_id = req[w].session_id /\ req[u].kind = "run"))
        => /\ files[req[w].session_id].exists
           /\ TryLoadSession(files[req[w].session_id]).service \in {svc[w], svc[v]}

\* C28: deletion is final: once delete_session has returned True for an
\* identifier, no record exists for it again, whatever a run on the same
\* identifier was doing at the time, an update_session that had passed its
\* existence check before the unlink included
C28_DeletionIsFinal ==
    \A i \in Ids : life[i] = "deleted" => ~files[i].exists

\* worker w's delete request has been answered
Deleted(w) ==
    /\ pc[w] = "idle" /\ req[w].kind = "delete"
    /\ ret[w].fn = "delete_session"

C30_RunSuccessMeansStored ==
    \A w \in Workers :
        (pc[w] = "idle" /\ req[w].kind = "run" /\ resp[w].status_code = 200)
        => /\ ret[w].fn = "update_session" /\ ret[w].returns = "True"
           /\ (\A v \in Workers \ {w} : req[v].session_id # req[w].session_id)
              => /\ TryLoadSession(files[req[w].session_id]).service # None
                 /\ ResultsResponse(TryLoadSession(files[req[w].session_id]).service[1])
                      = resp[w]

====
